---- MODULE Spec2Model ----
(***************************************************************************)
(* Team invitations and memberships of solotoabillion/stab.                *)
(*                                                                         *)
(* The storage is a relational database reached through GORM; every model  *)
(* carries a DeletedAt column, so Delete is a soft delete and every query  *)
(* and update sees only rows whose DeletedAt is unset.  Handlers are       *)
(* stateless; concurrency comes from several requests being served at the  *)
(* same time.  A request is modelled as a record req[p] holding the        *)
(* handler's arguments, its position (pc) and its local variables; each    *)
(* action is one database statement of one handler together with the       *)
(* local checks that follow it.  Statements outside db.Transaction are     *)
(* committed one by one; inside AcceptInvitation's transaction the         *)
(* inserted membership stays invisible to other requests until commit and  *)
(* is removed again on rollback (read committed isolation).                *)
(***************************************************************************)
EXTENDS Integers, Sequences, FiniteSets, TLC

\* ---------------------------------------------------------------- bounds
MaxInv == 2      \* invitation rows ever created
MaxTeams == 1    \* team rows ever created
MaxNow == 2      \* last instant of the clock
\* The clock counts in units of the invitation lifetime (7 days).
InviteTTL == 1

Procs == {1, 2}                 \* requests served at the same time
Users == {"u1", "u2"}           \* rows of the users table
Creators == {"u1"}              \* the users who create teams
Emails == {"e1", "e2"}
TeamIds == 1..MaxTeams
InvIds == 1..MaxInv
Tokens == 0..MaxInv             \* token 0 is never issued

RoleOwner == "owner"
RoleAdmin == "admin"
RoleMember == "member"
StatusPending == "pending"
StatusAccepted == "accepted"
StatusDeclined == "declined"
StatusExpired == "expired"

VARIABLES teams, mem, invs, now, req, out
\* Billing: the service configuration, the subscriptions and
\* subscription_items tables, users.stripe_customer_id, the row locks held
\* on users by open transactions, the billing requests being served and the
\* response of the request that has just returned.
VARIABLES cfg, subs, cust, ulock, items, breq, bout
\* Email: the registry of email providers and the result of the last call
\* of GetEmailSenderFromSettings.
VARIABLES emailProviderRegistry, eout
teamVars == <<teams, mem, invs, req, out>>
billingVars == <<cfg, subs, cust, ulock, items, breq, bout>>
emailVars == <<emailProviderRegistry, eout>>
vars == <<teams, mem, invs, now, req, out, cfg, subs, cust, ulock, items, breq,
          bout, emailProviderRegistry, eout>>

\* ------------------------------------------------------------ the tables
\* users.email (unique index); the acting user's row never changes here.
EmailOf(u) == IF u = "u1" THEN "e1" ELSE "e2"

FindUserByEmail(e) ==
  IF \E u \in Users : EmailOf(u) = e
  THEN CHOOSE u \in Users : EmailOf(u) = e
  ELSE "none"

\* A membership row is keyed by (user, team): the unique index idx_user_team
\* covers soft-deleted rows too, so a key holds at most one row, which is
\* absent ("none"), visible ("live"), soft deleted ("deleted") or inserted
\* by a transaction that has not committed yet ("uncommitted").
NoMembership == [state |-> "none", role |-> "none"]

Membership(u, t) == mem[<<u, t>>]

\* FindMembershipByUserAndTeam: the role of the visible row, or "none".
FindMembershipByUserAndTeam(u, t) ==
  IF t \in TeamIds /\ Membership(u, t).state = "live"
  THEN Membership(u, t).role
  ELSE "none"

\* A permission check that any member of the team passes.
IsAnyMember(r) == r # "none"

\* isAdminOrOwner := inviterRole == RoleOwner || inviterRole == RoleAdmin
IsAdminOrOwner(r) == r = RoleOwner \/ r = RoleAdmin

\* An invitation's token is unique; invitation i carries token i.
Live(i) == i \in 1..Len(invs) /\ ~invs[i].deleted

\* The same query with soft-deleted rows included (Unscoped).
FindInvitationByTokenUnscoped(tok) ==
  IF \E i \in 1..Len(invs) : invs[i].token = tok
  THEN CHOOSE i \in 1..Len(invs) : invs[i].token = tok
  ELSE 0

FindInvitationByToken(tok) ==
  IF \E i \in 1..Len(invs) : invs[i].token = tok /\ ~invs[i].deleted
  THEN CHOOSE i \in 1..Len(invs) : invs[i].token = tok /\ ~invs[i].deleted
  ELSE 0

FindInvitationByIDAndTeam(i, t) ==
  IF Live(i) /\ invs[i].team = t THEN i ELSE 0

FindPendingInvitationByTeamAndEmail(t, e) ==
  \E i \in 1..Len(invs) :
    /\ ~invs[i].deleted
    /\ invs[i].team = t
    /\ invs[i].email = e
    /\ invs[i].status = StatusPending

\* The comparison turned around (Before for After).
HasExpiredReversed(i) == now < invs[i].expiresAt

\* time.Now().After(invitation.ExpiresAt)
HasExpired(i) == now > invs[i].expiresAt

\* The same statement without its status condition.
MatchesUnconditionalUpdate(i) == Live(i)

\* UPDATE invitations SET status = ? WHERE id = ? AND status = 'pending'
\* (and deleted_at IS NULL): does the statement match the row?
MatchesPendingUpdate(i) == Live(i) /\ invs[i].status = StatusPending

\* ------------------------------------------------------------- requests
Idle ==
  [op |-> "none", pc |-> "idle", user |-> "none", team |-> 0, inv |-> 0,
   target |-> "none", role |-> "none", email |-> "none",
   st |-> "none", created |-> FALSE, rows |-> 0, res |-> "none"]

\* A slot takes a new request when it serves none.
Free(p) == req[p].pc = "idle"

\* No response is written by the step.
NoResponse == [Idle EXCEPT !.pc = "none"]

\* The request goes on: its record becomes r and nothing is answered yet.
Continue(p, r) ==
  /\ req' = [req EXCEPT ![p] = r]
  /\ out' = NoResponse

\* What a returning call leaves to be seen: the handler, the step it returns
\* from (pc, "idle" for its first), its outcome, the invitation status it
\* reports (st), the rows its write affected and, for the calls that bear a
\* token, the caller and the token.
Response(r, res) ==
  [Idle EXCEPT !.pc = r.pc, !.op = r.op, !.res = res, !.st = r.st,
               !.rows = r.rows,
               !.user = IF r.op \in {"accept", "decline"} THEN r.user ELSE "none",
               !.inv = IF r.op \in {"accept", "decline"} THEN r.inv ELSE 0]

\* The handler returns: the slot is free again and out holds the response.
Return(p, r, res) ==
  /\ req' = [req EXCEPT ![p] = Idle]
  /\ out' = Response(r, res)

InitTeams ==
  /\ teams = <<>>
  /\ mem = [k \in Users \X TeamIds |-> NoMembership]
  /\ invs = <<>>
  /\ now = 0
  /\ req = [p \in Procs |-> Idle]
  /\ out = NoResponse

\* The clock advances.
Tick ==
  /\ now < MaxNow
  /\ now' = now + 1
  /\ UNCHANGED <<teams, mem, invs, req>>
  /\ out' = NoResponse
  /\ UNCHANGED billingVars
  /\ UNCHANGED emailVars

\* PostCreateTeam / CreateTeamWithOwner: the team row and the owner's
\* membership row are inserted in one transaction.
CreateTeam(p, u) ==
  /\ Free(p)
  /\ Len(teams) < MaxTeams
  /\ LET t == Len(teams) + 1 IN
       /\ teams' = Append(teams, [owner |-> u])
       /\ mem' = [mem EXCEPT ![<<u, t>>] = [state |-> "live", role |-> RoleOwner]]
       /\ Return(p, [Idle EXCEPT !.op = "createteam", !.user = u, !.team = t], "OK")
  /\ UNCHANGED <<invs, now>>
  /\ UNCHANGED billingVars
  /\ UNCHANGED emailVars

\* ------------------------------------------------------ PostInviteMember
\* Invitations being created by requests that have not returned yet.
InvitesInFlight ==
  Cardinality({q \in Procs : req[q].op = "invite"})

\* Steps 3-5: the role is validated, the inviter's membership is read and
\* must be owner or admin.
InviteAuth(p, u, t, e, r) ==
  /\ Free(p)
  /\ Len(invs) + InvitesInFlight < MaxInv
  /\ LET r0 == [Idle EXCEPT !.op = "invite", !.user = u, !.team = t,
                            !.email = e, !.role = r]
     IN IF r # RoleAdmin /\ r # RoleMember THEN Return(p, r0, "BadRequest")
        ELSE IF ~IsAdminOrOwner(FindMembershipByUserAndTeam(u, t))
             THEN Return(p, r0, "Forbidden")
        ELSE Continue(p, [r0 EXCEPT !.pc = "inv_member"])
  /\ UNCHANGED <<teams, mem, invs, now>>
  /\ UNCHANGED billingVars
  /\ UNCHANGED emailVars

\* Step 6: an invited email that belongs to a user who is already a member
\* of the team is a conflict.
InviteMemberCheck(p) ==
  /\ req[p].pc = "inv_member"
  /\ LET r == req[p]
         iu == FindUserByEmail(r.email)
     IN IF iu # "none" /\ FindMembershipByUserAndTeam(iu, r.team) # "none"
        THEN Return(p, r, "Conflict")
        ELSE Continue(p, [r EXCEPT !.pc = "inv_pending"])
  /\ UNCHANGED <<teams, mem, invs, now>>
  /\ UNCHANGED billingVars
  /\ UNCHANGED emailVars

\* Step 7: a pending invitation for the same team and email is a conflict.
InvitePendingCheck(p) ==
  /\ req[p].pc = "inv_pending"
  /\ LET r == req[p] IN
       IF FindPendingInvitationByTeamAndEmail(r.team, r.email)
       THEN Return(p, r, "Conflict")
       ELSE Continue(p, [r EXCEPT !.pc = "inv_create"])
  /\ UNCHANGED <<teams, mem, invs, now>>
  /\ UNCHANGED billingVars
  /\ UNCHANGED emailVars

\* Step 8: CreateInvitation; BeforeCreate sets the token and the expiry.
InviteCreate(p) ==
  /\ req[p].pc = "inv_create"
  /\ LET r == req[p]
         i == Len(invs) + 1
     IN /\ invs' = Append(invs,
                     [email |-> r.email, team |-> r.team, inviter |-> r.user,
                      role |-> r.role, token |-> i, status |-> StatusPending,
                      expiresAt |-> now + InviteTTL, deleted |-> FALSE])
        /\ Return(p, [r EXCEPT !.inv = i, !.st = StatusPending], "OK")
  /\ UNCHANGED <<teams, mem, now>>
  /\ UNCHANGED billingVars
  /\ UNCHANGED emailVars

\* ------------------------------------------- PostAcceptInvitation / model
\* Steps 1-2 of AcceptInvitation: the row is read by its token; a missing
\* row is NotFound, a row that is not pending fails with "invitation is no
\* longer pending" (400).
AcceptFind(p, u, tok) ==
  /\ Free(p)
  /\ LET r0 == [Idle EXCEPT !.op = "accept", !.user = u, !.inv = tok]
         i == FindInvitationByToken(tok)
     IN IF i = 0 THEN Return(p, r0, "NotFound")
        ELSE IF invs[i].status # StatusPending
             THEN Return(p, [r0 EXCEPT !.st = invs[i].status], "NoLongerPending")
        ELSE Continue(p, [r0 EXCEPT !.pc = "acc_check", !.st = invs[i].status,
                                    !.team = invs[i].team, !.role = invs[i].role,
                                    !.email = invs[i].email])
  /\ UNCHANGED <<teams, mem, invs, now>>
  /\ UNCHANGED billingVars
  /\ UNCHANGED emailVars

\* The comparison left out: every user passes.
EmailNotCompared(u, e) == FALSE

\* user.Email != invitation.Email, with user the row of the accepting user.
EmailDiffers(u, e) == EmailOf(u) # e

\* The expiry written to the row when it is found.
MarkedExpired(i) == [invs EXCEPT ![i].status = StatusExpired]

\* The invitations after an expiry was found: the update to expired is
\* commented out and the transaction returns its error, so the rows stay.
StoredOnExpiry(i) == invs

\* Steps 3-4: the expiry is compared with the clock, then the accepting
\* user's email with the invited email.
AcceptCheck(p) ==
  /\ req[p].pc = "acc_check"
  /\ LET r == req[p] IN
       IF HasExpired(r.inv)
       THEN Return(p, r, "Expired") /\ invs' = StoredOnExpiry(r.inv)
       ELSE /\ invs' = invs
            /\ IF EmailDiffers(r.user, r.email) THEN Return(p, r, "Forbidden")
               ELSE Continue(p, [r EXCEPT !.pc = "acc_memfind"])
  /\ UNCHANGED <<teams, mem, now>>
  /\ UNCHANGED billingVars
  /\ UNCHANGED emailVars

\* Step 5, FirstOrCreate's SELECT: a visible membership of (user, team) is
\* taken as it is.
AcceptMemFind(p) ==
  /\ req[p].pc = "acc_memfind"
  /\ LET r == req[p] IN
       IF FindMembershipByUserAndTeam(r.user, r.team) # "none"
       THEN Continue(p, [r EXCEPT !.pc = "acc_update"])
       ELSE Continue(p, [r EXCEPT !.pc = "acc_insert"])
  /\ UNCHANGED <<teams, mem, invs, now>>
  /\ UNCHANGED billingVars
  /\ UNCHANGED emailVars

\* Step 5, FirstOrCreate's INSERT.  The statement waits while another
\* transaction holds an uncommitted row under the same unique key; a
\* committed row under the key (visible or soft deleted) is a unique
\* violation, which fails the transaction.
AcceptMemInsert(p) ==
  /\ req[p].pc = "acc_insert"
  /\ LET r == req[p]
         k == <<r.user, r.team>>
     IN /\ mem[k].state # "uncommitted"
        /\ IF mem[k].state = "none"
           THEN /\ mem' = [mem EXCEPT ![k] = [state |-> "uncommitted", role |-> r.role]]
                /\ Continue(p, [r EXCEPT !.pc = "acc_update", !.created = TRUE])
           ELSE /\ mem' = mem
                /\ Return(p, r, "InternalError")
  /\ UNCHANGED <<teams, invs, now>>
  /\ UNCHANGED billingVars
  /\ UNCHANGED emailVars

\* Step 6: the conditional write pending -> accepted.  When it matches the
\* row the transaction commits with it; when it matches nothing the row is
\* read again next.
AcceptUpdate(p) ==
  /\ req[p].pc = "acc_update"
  /\ LET r == req[p]
         k == <<r.user, r.team>>
     IN IF MatchesPendingUpdate(r.inv)
        THEN /\ invs' = [invs EXCEPT ![r.inv].status = StatusAccepted]
             /\ mem' = IF r.created
                       THEN [mem EXCEPT ![k].state = "live"]
                       ELSE mem
             /\ Return(p, [r EXCEPT !.rows = 1, !.st = StatusAccepted], "OK")
        ELSE /\ invs' = invs
             /\ mem' = mem
             /\ Continue(p, [r EXCEPT !.pc = "acc_refetch"])
  /\ UNCHANGED <<teams, now>>
  /\ UNCHANGED billingVars
  /\ UNCHANGED emailVars

\* The response PostAcceptInvitation gives to the error "failed to update
\* invitation status, ...", with st the status seen by the second read.
AcceptRaceOutcome(st) == "OK"

\* A failed transaction that keeps the row it inserted.
KeptOnFailure(k, created) ==
  IF created THEN [mem EXCEPT ![k].state = "live"] ELSE mem

\* The memberships after the transaction's rollback: the row it inserted
\* under the key k, if it inserted one, is gone.
RolledBack(k, created) ==
  IF created THEN [mem EXCEPT ![k] = NoMembership] ELSE mem

\* Zero rows: the invitation is read again into the local struct (a row no
\* longer visible leaves the struct as it was), the transaction returns an
\* error and rolls back, and the handler answers.
AcceptRefetch(p) ==
  /\ req[p].pc = "acc_refetch"
  /\ LET r == req[p]
         k == <<r.user, r.team>>
         st == IF Live(r.inv) THEN invs[r.inv].status ELSE r.st
     IN /\ mem' = RolledBack(k, r.created)
        /\ Return(p, [r EXCEPT !.st = st], AcceptRaceOutcome(st))
  /\ UNCHANGED <<teams, invs, now>>
  /\ UNCHANGED billingVars
  /\ UNCHANGED emailVars

\* -------------------------------------------------- PostDeclineInvitation
\* Step 3 and the status check of step 4: the row is read by its token; a
\* row that is not pending is answered 400.
DeclineFind(p, u, tok) ==
  /\ Free(p)
  /\ LET r0 == [Idle EXCEPT !.op = "decline", !.user = u, !.inv = tok]
         i == FindInvitationByToken(tok)
     IN IF i = 0 THEN Return(p, r0, "NotFound")
        ELSE IF invs[i].status # StatusPending
             THEN Return(p, [r0 EXCEPT !.st = invs[i].status], "NoLongerPending")
        ELSE Continue(p, [r0 EXCEPT !.pc = "dec_check", !.st = invs[i].status,
                                    !.team = invs[i].team, !.role = invs[i].role,
                                    !.email = invs[i].email])
  /\ UNCHANGED <<teams, mem, invs, now>>
  /\ UNCHANGED billingVars
  /\ UNCHANGED emailVars

\* Step 4: expiry against the clock, then the email of the user in the
\* request context against the invited email.
DeclineCheck(p) ==
  /\ req[p].pc = "dec_check"
  /\ LET r == req[p] IN
       IF HasExpired(r.inv) THEN Return(p, r, "Expired")
       ELSE IF EmailOf(r.user) # r.email THEN Return(p, r, "Forbidden")
       ELSE Continue(p, [r EXCEPT !.pc = "upd_find"])
  /\ UNCHANGED <<teams, mem, invs, now>>
  /\ UNCHANGED billingVars
  /\ UNCHANGED emailVars

\* UpdateInvitationStatus(id, declined), the read: a row that is gone is an
\* error the handler reports as an internal error; a row already declined
\* is returned as it is; any other status than pending is a conflict.
UpdateStatusFind(p) ==
  /\ req[p].pc = "upd_find"
  /\ LET r == req[p] IN
       IF ~Live(r.inv) THEN Return(p, r, "InternalError")
       ELSE IF invs[r.inv].status = StatusDeclined
            THEN Return(p, [r EXCEPT !.st = StatusDeclined], "OK")
       ELSE IF invs[r.inv].status # StatusPending
            THEN Return(p, [r EXCEPT !.st = invs[r.inv].status], "Conflict")
       ELSE Continue(p, [r EXCEPT !.pc = "upd_write"])
  /\ UNCHANGED <<teams, mem, invs, now>>
  /\ UNCHANGED billingVars
  /\ UNCHANGED emailVars

\* UpdateInvitationStatus, the conditional write pending -> declined.
UpdateStatusWrite(p) ==
  /\ req[p].pc = "upd_write"
  /\ LET r == req[p] IN
       IF MatchesPendingUpdate(r.inv)
       THEN /\ invs' = [invs EXCEPT ![r.inv].status = StatusDeclined]
            /\ Return(p, [r EXCEPT !.rows = 1, !.st = StatusDeclined], "OK")
       ELSE /\ invs' = invs
            /\ Continue(p, [r EXCEPT !.pc = "upd_refetch"])
  /\ UNCHANGED <<teams, mem, now>>
  /\ UNCHANGED billingVars
  /\ UNCHANGED emailVars

\* The response PostDeclineInvitation gives to the error "invitation status
\* changed unexpectedly", with st the status seen by the second read.
DeclineRaceOutcome(st) == "Conflict"

\* Zero rows: the row is read again and returned with the error.
UpdateStatusRefetch(p) ==
  /\ req[p].pc = "upd_refetch"
  /\ LET r == req[p]
         st == IF Live(r.inv) THEN invs[r.inv].status ELSE r.st
     IN Return(p, [r EXCEPT !.st = st], DeclineRaceOutcome(st))
  /\ UNCHANGED <<teams, mem, invs, now>>
  /\ UNCHANGED billingVars
  /\ UNCHANGED emailVars

\* ------------------------------------------------- DeleteCancelInvitation
\* Steps 3-4: the requestor's membership is read and must be owner or admin.
CancelAuth(p, u, t, i) ==
  /\ Free(p)
  /\ LET r0 == [Idle EXCEPT !.op = "cancel", !.user = u, !.team = t, !.inv = i] IN
       IF ~IsAdminOrOwner(FindMembershipByUserAndTeam(u, t))
       THEN Return(p, r0, "Forbidden")
       ELSE Continue(p, [r0 EXCEPT !.pc = "can_find"])
  /\ UNCHANGED <<teams, mem, invs, now>>
  /\ UNCHANGED billingVars
  /\ UNCHANGED emailVars

\* Steps 5-6: the invitation is read by id and team and must be pending.
CancelFind(p) ==
  /\ req[p].pc = "can_find"
  /\ LET r == req[p] IN
       IF FindInvitationByIDAndTeam(r.inv, r.team) = 0 THEN Return(p, r, "NotFound")
       ELSE IF invs[r.inv].status # StatusPending
            THEN Return(p, [r EXCEPT !.st = invs[r.inv].status], "Conflict")
       ELSE Continue(p, [r EXCEPT !.pc = "del_find", !.st = invs[r.inv].status])
  /\ UNCHANGED <<teams, mem, invs, now>>
  /\ UNCHANGED billingVars
  /\ UNCHANGED emailVars

\* DeleteInvitation, the read by primary key.
DeleteInvitationFind(p) ==
  /\ req[p].pc = "del_find"
  /\ LET r == req[p] IN
       IF ~Live(r.inv) THEN Return(p, r, "NotFound")
       ELSE Continue(p, [r EXCEPT !.pc = "del_write"])
  /\ UNCHANGED <<teams, mem, invs, now>>
  /\ UNCHANGED billingVars
  /\ UNCHANGED emailVars

\* The soft delete matches the row by its primary key alone.
MatchesDelete(i) == Live(i)

\* DeleteInvitation, the soft delete.
DeleteInvitationWrite(p) ==
  /\ req[p].pc = "del_write"
  /\ LET r == req[p] IN
       IF MatchesDelete(r.inv)
       THEN /\ invs' = [invs EXCEPT ![r.inv].deleted = TRUE]
            /\ Return(p, [r EXCEPT !.rows = 1], "OK")
       ELSE /\ invs' = invs
            /\ Return(p, r, "NotFound")
  /\ UNCHANGED <<teams, mem, now>>
  /\ UNCHANGED billingVars
  /\ UNCHANGED emailVars

\* -------------------------------------------------- PatchUpdateMemberRole
\* Steps 3-6: the new role is validated, the requestor's membership must be
\* owner or admin, and nobody changes their own role.
RoleAuth(p, u, t, m, r) ==
  /\ Free(p)
  /\ LET r0 == [Idle EXCEPT !.op = "role", !.user = u, !.team = t,
                            !.target = m, !.role = r]
     IN IF r # RoleAdmin /\ r # RoleMember THEN Return(p, r0, "BadRequest")
        ELSE IF ~IsAdminOrOwner(FindMembershipByUserAndTeam(u, t))
             THEN Return(p, r0, "Forbidden")
        ELSE IF u = m THEN Return(p, r0, "BadRequest")
        ELSE Continue(p, [r0 EXCEPT !.pc = "role_find"])
  /\ UNCHANGED <<teams, mem, invs, now>>
  /\ UNCHANGED billingVars
  /\ UNCHANGED emailVars

\* The owner check left out.
IsProtectedRoleNever(r) == FALSE

\* Step 8 of PatchUpdateMemberRole and step 7 of DeleteRemoveMember: the
\* target's role forbids the change.
IsProtectedRole(r) == r = RoleOwner

\* Steps 7-8: the target's membership is read; the owner's role is never
\* changed.
RoleFind(p) ==
  /\ req[p].pc = "role_find"
  /\ LET r == req[p]
         found == FindMembershipByUserAndTeam(r.target, r.team)
     IN IF found = "none" THEN Return(p, r, "NotFound")
        ELSE IF IsProtectedRole(found) THEN Return(p, r, "BadRequest")
        ELSE Continue(p, [r EXCEPT !.pc = "role_write"])
  /\ UNCHANGED <<teams, mem, invs, now>>
  /\ UNCHANGED billingVars
  /\ UNCHANGED emailVars

\* Step 9, UpdateMembershipRole: the row found is updated by its id.
RoleWrite(p) ==
  /\ req[p].pc = "role_write"
  /\ LET r == req[p]
         k == <<r.target, r.team>>
     IN IF mem[k].state = "live"
        THEN /\ mem' = [mem EXCEPT ![k].role = r.role]
             /\ Return(p, [r EXCEPT !.rows = 1], "OK")
        ELSE /\ mem' = mem
             /\ Return(p, r, "NotFound")
  /\ UNCHANGED <<teams, invs, now>>
  /\ UNCHANGED billingVars
  /\ UNCHANGED emailVars

\* ----------------------------------------------------- DeleteRemoveMember
\* Steps 3-5: the requestor's membership must be owner or admin, and nobody
\* removes themselves.
RemoveAuth(p, u, t, m) ==
  /\ Free(p)
  /\ LET r0 == [Idle EXCEPT !.op = "remove", !.user = u, !.team = t, !.target = m] IN
       IF ~IsAdminOrOwner(FindMembershipByUserAndTeam(u, t))
       THEN Return(p, r0, "Forbidden")
       ELSE IF u = m THEN Return(p, r0, "BadRequest")
       ELSE Continue(p, [r0 EXCEPT !.pc = "rem_find"])
  /\ UNCHANGED <<teams, mem, invs, now>>
  /\ UNCHANGED billingVars
  /\ UNCHANGED emailVars

\* Steps 6-7: the target's membership is read; the owner is never removed.
RemoveFind(p) ==
  /\ req[p].pc = "rem_find"
  /\ LET r == req[p]
         found == FindMembershipByUserAndTeam(r.target, r.team)
     IN IF found = "none" THEN Return(p, r, "NotFound")
        ELSE IF IsProtectedRole(found) THEN Return(p, r, "BadRequest")
        ELSE Continue(p, [r EXCEPT !.pc = "rem_find2"])
  /\ UNCHANGED <<teams, mem, invs, now>>
  /\ UNCHANGED billingVars
  /\ UNCHANGED emailVars

\* DeleteMembershipByUserAndTeam, the read by user and team.
DeleteMembershipFind(p) ==
  /\ req[p].pc = "rem_find2"
  /\ LET r == req[p] IN
       IF FindMembershipByUserAndTeam(r.target, r.team) = "none"
       THEN Return(p, r, "NotFound")
       ELSE Continue(p, [r EXCEPT !.pc = "rem_write"])
  /\ UNCHANGED <<teams, mem, invs, now>>
  /\ UNCHANGED billingVars
  /\ UNCHANGED emailVars

\* DeleteMembershipByUserAndTeam, the soft delete of the row found.
DeleteMembershipWrite(p) ==
  /\ req[p].pc = "rem_write"
  /\ LET r == req[p]
         k == <<r.target, r.team>>
     IN IF mem[k].state = "live"
        THEN /\ mem' = [mem EXCEPT ![k].state = "deleted"]
             /\ Return(p, [r EXCEPT !.rows = 1], "OK")
        ELSE /\ mem' = mem
             /\ Return(p, r, "NotFound")
  /\ UNCHANGED <<teams, invs, now>>
  /\ UNCHANGED billingVars
  /\ UNCHANGED emailVars


\* =============================================================== billing
MaxItems == 2    \* subscription item rows ever created

ExtIds == {"s1"}                         \* provider subscription ids
UnknownIds == {"s0"}                     \* a subscription never checked out here
EventIds == ExtIds \cup UnknownIds       \* ids that events refer to
Customers == {"c1"}                      \* provider customer ids
Plans == {"basic", "pro"}                \* rows of the plans table
Prices == {"price_basic", "price_pro", "price_x"}
Resources == {"r1"}                      \* resources an add-on is for
SubActive == "active"
SubPastDue == "past_due"
SubCanceled == "canceled"
SubStatuses == {SubActive, SubPastDue, SubCanceled}
DeletedStatuses == {SubCanceled}         \* status of a deleted subscription
ItemTypes == {"reserved_domain", "custom_domain"}
HandledTypes ==
  {"checkout.session.completed", "customer.subscription.updated",
   "customer.subscription.deleted", "invoice.paid", "invoice.payment_failed"}
EventTypes == HandledTypes \cup {"other"}
Configs == [webhookSecret : BOOLEAN, secretKey : BOOLEAN, priceIds : BOOLEAN]

\* plans.stripe_price_id: the plan sold at a price, or "none".
FindPlanByPrice(price) ==
  IF price = "price_basic" THEN "basic"
  ELSE IF price = "price_pro" THEN "pro"
  ELSE "none"

\* Rows of subscriptions that carry the external id.
SubsWith(ext) == {i \in 1..Len(subs) : subs[i].ext = ext}

\* A lookup that takes the first row of the table, whatever its id.
FindFirstSubscription(ext) == IF Len(subs) = 0 THEN 0 ELSE 1

\* SELECT ... WHERE stripe_subscription_id = ? LIMIT 1: the row, or 0.
FindSubscriptionByExt(ext) ==
  IF SubsWith(ext) = {} THEN 0
  ELSE CHOOSE i \in SubsWith(ext) : \A j \in SubsWith(ext) : i <= j

\* The table without its unique index.
UniqueExtUnchecked(ext) == TRUE

\* The unique index on subscriptions.stripe_subscription_id admits the row.
UniqueExtFree(ext) == SubsWith(ext) = {}

\* FindLatestActiveSubscriptionByUserID: the user's active row created
\* last, or 0.
FindLatestActiveSubscriptionByUserID(u) ==
  LET S == {i \in 1..Len(subs) : subs[i].user = u /\ subs[i].status = SubActive}
  IN IF S = {} THEN 0 ELSE CHOOSE i \in S : \A j \in S : j <= i

\* FindSubscriptionItemByTypeAndResource: the row, or 0.
FindSubscriptionItemByTypeAndResource(sub, typ, res) ==
  LET S == {i \in 1..Len(items) :
              /\ ~items[i].removed /\ items[i].sub = sub
              /\ items[i].typ = typ /\ items[i].resource = res}
  IN IF S = {} THEN 0 ELSE CHOOSE i \in S : \A j \in S : i <= j

\* A row written with the status for every delivery, in place of the update.
InsertStatusByExt(ext, st) ==
  Append(subs, [user |-> "none", plan |-> "none", ext |-> ext, status |-> st,
                period |-> 0, cancel |-> FALSE, updatedAt |-> now])

\* UPDATE subscriptions SET status = ?, updated_at = now
\* WHERE stripe_subscription_id = ?
UpdateStatusByExt(ext, st) ==
  [i \in 1..Len(subs) |->
     IF subs[i].ext = ext
     THEN [subs[i] EXCEPT !.status = st, !.updatedAt = now]
     ELSE subs[i]]

\* ------------------------------------------------------ billing requests
BIdle ==
  [op |-> "none", pc |-> "idle", typ |-> "none", sig |-> "none",
   user |-> "none", ext |-> "none", customer |-> "none", plan |-> "none",
   status |-> "none", period |-> 0, cancel |-> FALSE, found |-> 0,
   resource |-> "none", link |-> "none", invoice |-> "none", remote |-> 0,
   answer |-> "none", res |-> "none"]

BFree(p) == breq[p].pc = "idle"

NoBillingResponse == [BIdle EXCEPT !.pc = "none"]

BContinue(p, r) ==
  /\ breq' = [breq EXCEPT ![p] = r]
  /\ bout' = NoBillingResponse

\* What a returning billing request leaves to be seen: the handler, the
\* event type and signature verdict, the step it returns from, the external
\* id it referred to, the row it had found, an invoice's subscription link
\* and status, and its outcome.
BResponse(r, res) ==
  [BIdle EXCEPT !.pc = r.pc, !.op = r.op, !.typ = r.typ, !.sig = r.sig,
                !.ext = r.ext, !.found = r.found, !.link = r.link,
                !.invoice = r.invoice, !.remote = r.remote,
                !.answer = r.answer, !.res = res]

BReturn(p, r, res) ==
  /\ breq' = [breq EXCEPT ![p] = BIdle]
  /\ bout' = BResponse(r, res)

\* The billing tables of a service that has just been deployed.
BillingEmpty ==
  /\ subs = <<>>
  /\ cust = [u \in Users |-> "none"]
  /\ ulock = [u \in Users |-> 0]
  /\ items = <<>>
  /\ breq = [p \in Procs |-> BIdle]
  /\ bout = NoBillingResponse

\* The clock advances while billing requests are served.
BillingTick ==
  /\ now < MaxNow
  /\ now' = now + 1
  /\ bout' = NoBillingResponse
  /\ UNCHANGED <<cfg, subs, cust, ulock, items, breq>>
  /\ UNCHANGED teamVars
  /\ UNCHANGED emailVars


\* ----------------------------------------------------- PostStripeWebhook
\* A verification that lets every signature through.
SignatureUnchecked(sig) == TRUE

\* webhook.ConstructEvent: the signature verifies against the secret.
SignatureVerifies(sig) == sig = "good"

\* An entry that refuses the event types it has no handler for.
WebhookEntryStrict(sig, typ, parses) ==
  IF sig = "missing" THEN "Unverified"
  ELSE IF ~cfg.webhookSecret THEN "ServerError"
  ELSE IF ~SignatureVerifies(sig) THEN "Unverified"
  ELSE IF ~cfg.secretKey THEN "ServerError"
  ELSE IF typ \notin HandledTypes \/ ~parses THEN "BadRequest"
  ELSE "pass"

\* Steps 0-4 of PostStripeWebhook up to the call of the event's handler:
\* the outcome that ends the request there, or "pass".
WebhookEntry(sig, typ, parses) ==
  IF sig = "missing" THEN "Unverified"
  ELSE IF ~cfg.webhookSecret THEN "ServerError"
  ELSE IF ~SignatureVerifies(sig) THEN "Unverified"
  ELSE IF ~cfg.secretKey THEN "ServerError"
  ELSE IF typ \in HandledTypes /\ ~parses THEN "BadRequest"
  ELSE "pass"

\* A webhook request for an event of type typ.
WebhookRequest(sig, typ) == [BIdle EXCEPT !.op = "webhook", !.typ = typ, !.sig = sig]

\* The request ends before any handler runs.
WebhookReject(p, sig, typ, parses) ==
  /\ BFree(p)
  /\ WebhookEntry(sig, typ, parses) # "pass"
  /\ BReturn(p, WebhookRequest(sig, typ), WebhookEntry(sig, typ, parses))
  /\ UNCHANGED <<cfg, subs, cust, ulock, items, now>>
  /\ UNCHANGED teamVars
  /\ UNCHANGED emailVars

\* The default branch of the switch: an event type without a handler.
WebhookUnhandled(p, sig, typ) ==
  /\ BFree(p)
  /\ typ \notin HandledTypes
  /\ WebhookEntry(sig, typ, TRUE) = "pass"
  /\ BReturn(p, WebhookRequest(sig, typ), "OK")
  /\ UNCHANGED <<cfg, subs, cust, ulock, items, now>>
  /\ UNCHANGED teamVars
  /\ UNCHANGED emailVars

\* The states of a subscription at the provider that deliveries report: its
\* status, the price of its first item ("none" without one, "price_x" sold
\* under no plan), its period and its cancel-at-period-end flag.
Snapshots ==
  {[ok |-> TRUE, status |-> SubActive, price |-> "price_basic", period |-> 1, cancel |-> FALSE],
   [ok |-> TRUE, status |-> SubPastDue, price |-> "price_pro", period |-> 2, cancel |-> TRUE],
   [ok |-> TRUE, status |-> SubCanceled, price |-> "price_x", period |-> 2, cancel |-> FALSE],
   [ok |-> TRUE, status |-> SubActive, price |-> "none", period |-> 1, cancel |-> FALSE]}

\* What subscription.Get answers: an error, or the provider's subscription.
Fetches ==
  {[ok |-> FALSE, status |-> "none", price |-> "none", period |-> 0, cancel |-> FALSE]}
  \cup Snapshots

\* handleCheckoutSessionCompleted, the checks of the payload: the first log
\* line reads session.Customer.ID and session.Subscription.ID, a nil
\* pointer dereference when either is absent; then the ids must be present
\* and the user reference must parse.
CheckoutBegin(p, sig, userRef, customer, link) ==
  /\ BFree(p)
  /\ WebhookEntry(sig, "checkout.session.completed", TRUE) = "pass"
  /\ LET r0 == [WebhookRequest(sig, "checkout.session.completed")
                  EXCEPT !.ext = IF link \in ExtIds THEN link ELSE "none",
                         !.link = link, !.user = userRef, !.customer = customer]
     IN IF customer = "nil" \/ link = "nil" THEN BReturn(p, r0, "Panic")
        ELSE IF userRef = "" \/ customer = "" \/ link = ""
             THEN BReturn(p, r0, "BadRequest")
        ELSE IF userRef = "malformed" THEN BReturn(p, r0, "BadRequest")
        ELSE BContinue(p, [r0 EXCEPT !.pc = "co_fetch"])
  /\ UNCHANGED <<cfg, subs, cust, ulock, items, now>>
  /\ UNCHANGED teamVars
  /\ UNCHANGED emailVars

\* subscription.Get, the match of its price to a plan and, inside the
\* transaction, the read of the user.
CheckoutFetch(p, f) ==
  /\ breq[p].pc = "co_fetch"
  /\ LET r == breq[p] IN
       IF ~f.ok THEN BReturn(p, r, "ServerError")
       ELSE IF f.price = "none" THEN BReturn(p, r, "BadRequest")
       ELSE IF FindPlanByPrice(f.price) = "none" THEN BReturn(p, r, "ServerError")
       ELSE IF r.user \notin Users THEN BReturn(p, r, "BadRequest")
       ELSE BContinue(p, [r EXCEPT !.pc = "co_user",
                                   !.plan = FindPlanByPrice(f.price),
                                   !.status = f.status, !.period = f.period,
                                   !.cancel = f.cancel])
  /\ UNCHANGED <<cfg, subs, cust, ulock, items, now>>
  /\ UNCHANGED teamVars
  /\ UNCHANGED emailVars

\* UPDATE users SET stripe_customer_id: the statement waits for the row lock
\* and holds it until the transaction ends.
CheckoutUserUpdate(p) ==
  /\ breq[p].pc = "co_user"
  /\ ulock[breq[p].user] = 0
  /\ ulock' = [ulock EXCEPT ![breq[p].user] = p]
  /\ BContinue(p, [breq[p] EXCEPT !.pc = "co_find"])
  /\ UNCHANGED <<cfg, subs, cust, items, now>>
  /\ UNCHANGED teamVars
  /\ UNCHANGED emailVars

\* FirstOrCreate's SELECT by stripe_subscription_id.
CheckoutFind(p) ==
  /\ breq[p].pc = "co_find"
  /\ BContinue(p, [breq[p] EXCEPT !.pc = "co_write",
                                  !.found = FindSubscriptionByExt(breq[p].ext)])
  /\ UNCHANGED <<cfg, subs, cust, ulock, items, now>>
  /\ UNCHANGED teamVars
  /\ UNCHANGED emailVars

\* The row FirstOrCreate inserts.
NewSubscription(r) ==
  [user |-> r.user, plan |-> r.plan, ext |-> r.ext, status |-> r.status,
   period |-> r.period, cancel |-> r.cancel, updatedAt |-> now]

\* The row after FirstOrCreate's UPDATE with the Assign attributes: the
\* non-zero fields of the struct are written, so a false CancelAtPeriodEnd
\* leaves the stored flag as it is.
AssignSubscription(old, r) ==
  [old EXCEPT !.user = r.user, !.plan = r.plan, !.status = r.status,
              !.period = r.period,
              !.cancel = IF r.cancel THEN TRUE ELSE old.cancel,
              !.updatedAt = now]

\* A user update that outlives the failure of its transaction.
CustomersKept(r) == [cust EXCEPT ![r.user] = r.customer]

\* users.stripe_customer_id after the rollback of the transaction: the
\* update of line 282 is undone.
CustomersRolledBack(r) == cust

\* FirstOrCreate's INSERT or UPDATE and the end of the transaction: a
\* unique violation fails the transaction, which rolls back; otherwise it
\* commits with the user's customer id.
CheckoutWrite(p) ==
  /\ breq[p].pc = "co_write"
  /\ LET r == breq[p] IN
       /\ ulock' = [ulock EXCEPT ![r.user] = 0]
       /\ IF r.found = 0 /\ ~UniqueExtFree(r.ext)
          THEN /\ UNCHANGED subs
               /\ cust' = CustomersRolledBack(r)
               /\ BReturn(p, r, "ServerError")
          ELSE /\ subs' = IF r.found = 0
                          THEN Append(subs, NewSubscription(r))
                          ELSE [subs EXCEPT ![r.found] = AssignSubscription(subs[r.found], r)]
               /\ cust' = [cust EXCEPT ![r.user] = r.customer]
               /\ BReturn(p, r, "OK")
  /\ UNCHANGED <<cfg, items, now>>
  /\ UNCHANGED teamVars
  /\ UNCHANGED emailVars


\* handleSubscriptionUpdated, the read: an unknown id is ignored; the plan
\* follows the event's price when a plan is sold at it.
SubscriptionUpdatedFind(p, sig, id, ev) ==
  /\ BFree(p)
  /\ WebhookEntry(sig, "customer.subscription.updated", TRUE) = "pass"
  /\ LET r0 == [WebhookRequest(sig, "customer.subscription.updated") EXCEPT !.ext = id]
         i == FindSubscriptionByExt(id)
     IN IF i = 0 THEN BReturn(p, r0, "OK")
        ELSE BContinue(p, [r0 EXCEPT !.pc = "up_write", !.found = i,
                             !.plan = IF FindPlanByPrice(ev.price) # "none"
                                      THEN FindPlanByPrice(ev.price)
                                      ELSE subs[i].plan,
                             !.status = ev.status, !.period = ev.period,
                             !.cancel = ev.cancel])
  /\ UNCHANGED <<cfg, subs, cust, ulock, items, now>>
  /\ UNCHANGED teamVars
  /\ UNCHANGED emailVars

\* An update from a struct, which leaves out the fields that are zero.
UpdatesNonZero(old, r) ==
  [old EXCEPT !.status = r.status, !.period = r.period,
              !.cancel = IF r.cancel THEN TRUE ELSE old.cancel,
              !.plan = r.plan, !.updatedAt = now]

\* The row after Updates(updateData): every key of the map is written in
\* the one UPDATE statement, a false cancel_at_period_end included.
UpdatesSubscription(old, r) ==
  [old EXCEPT !.status = r.status, !.period = r.period,
              !.cancel = r.cancel, !.plan = r.plan, !.updatedAt = now]

\* handleSubscriptionUpdated, the write of the row found and the commit.
SubscriptionUpdatedWrite(p) ==
  /\ breq[p].pc = "up_write"
  /\ LET r == breq[p] IN
       /\ subs' = [subs EXCEPT ![r.found] = UpdatesSubscription(@, r)]
       /\ BReturn(p, r, "OK")
  /\ UNCHANGED <<cfg, cust, ulock, items, now>>
  /\ UNCHANGED teamVars
  /\ UNCHANGED emailVars

\* handleSubscriptionDeleted: the status of the event is written by
\* external id; zero rows is no error.
SubscriptionDeleted(p, sig, id, st) ==
  /\ BFree(p)
  /\ WebhookEntry(sig, "customer.subscription.deleted", TRUE) = "pass"
  /\ subs' = UpdateStatusByExt(id, st)
  /\ BReturn(p, [WebhookRequest(sig, "customer.subscription.deleted") EXCEPT !.ext = id], "OK")
  /\ UNCHANGED <<cfg, cust, ulock, items, now>>
  /\ UNCHANGED teamVars
  /\ UNCHANGED emailVars

\* handleInvoicePaid: the first log line reads invoice.Subscription.ID, a
\* nil pointer dereference for an invoice without a subscription; an
\* invoice that is not paid or has an empty subscription id is ignored.
InvoicePaid(p, sig, link, invStatus) ==
  /\ BFree(p)
  /\ WebhookEntry(sig, "invoice.paid", TRUE) = "pass"
  /\ LET r0 == [WebhookRequest(sig, "invoice.paid")
                  EXCEPT !.ext = IF link \in EventIds THEN link ELSE "none",
                         !.link = link, !.invoice = invStatus]
     IN IF link = "nil" THEN UNCHANGED subs /\ BReturn(p, r0, "Panic")
        ELSE IF invStatus # "paid" \/ link = "" THEN UNCHANGED subs /\ BReturn(p, r0, "OK")
        ELSE /\ subs' = UpdateStatusByExt(link, SubActive)
             /\ BReturn(p, r0, "OK")
  /\ UNCHANGED <<cfg, cust, ulock, items, now>>
  /\ UNCHANGED teamVars
  /\ UNCHANGED emailVars

\* handleInvoicePaymentFailed: the same log line; an empty subscription id
\* is ignored; the status becomes past_due.
InvoicePaymentFailed(p, sig, link) ==
  /\ BFree(p)
  /\ WebhookEntry(sig, "invoice.payment_failed", TRUE) = "pass"
  /\ LET r0 == [WebhookRequest(sig, "invoice.payment_failed")
                  EXCEPT !.ext = IF link \in EventIds THEN link ELSE "none",
                         !.link = link]
     IN IF link = "nil" THEN UNCHANGED subs /\ BReturn(p, r0, "Panic")
        ELSE IF link = "" THEN UNCHANGED subs /\ BReturn(p, r0, "OK")
        ELSE /\ subs' = UpdateStatusByExt(link, SubPastDue)
             /\ BReturn(p, r0, "OK")
  /\ UNCHANGED <<cfg, cust, ulock, items, now>>
  /\ UNCHANGED teamVars
  /\ UNCHANGED emailVars


\* ----------------------------------------------------------- PostAddAddon
\* Item rows being created by requests that have not returned yet.
AddonsInFlight ==
  Cardinality({q \in Procs : breq[q].op = "addaddon"})

\* Steps 2-5: the body is validated, the price of the item type and the
\* provider key are read from the configuration, and the user's active
\* subscription is read.
AddonBegin(p, u, typ, resource) ==
  /\ BFree(p)
  /\ Len(items) + AddonsInFlight < MaxItems
  /\ LET r0 == [BIdle EXCEPT !.op = "addaddon", !.user = u, !.typ = typ,
                             !.resource = resource]
         sub == FindLatestActiveSubscriptionByUserID(u)
     IN IF typ = "" \/ resource = "" THEN BReturn(p, r0, "BadRequest")
        ELSE IF resource = "malformed" THEN BReturn(p, r0, "BadRequest")
        ELSE IF typ \notin ItemTypes THEN BReturn(p, r0, "BadRequest")
        ELSE IF ~cfg.priceIds THEN BReturn(p, r0, "ServerError")
        ELSE IF ~cfg.secretKey THEN BReturn(p, r0, "ServerError")
        ELSE IF sub = 0 THEN BReturn(p, r0, "NotFound")
        ELSE BContinue(p, [r0 EXCEPT !.pc = "ad_check", !.found = sub])
  /\ UNCHANGED <<cfg, subs, cust, ulock, items, now>>
  /\ UNCHANGED teamVars
  /\ UNCHANGED emailVars

\* Step 6: an item of the same subscription, type and resource is a
\* conflict.
AddonCheck(p) ==
  /\ breq[p].pc = "ad_check"
  /\ LET r == breq[p] IN
       IF FindSubscriptionItemByTypeAndResource(r.found, r.typ, r.resource) # 0
       THEN BReturn(p, r, "Conflict")
       ELSE BContinue(p, [r EXCEPT !.pc = "ad_remote"])
  /\ UNCHANGED <<cfg, subs, cust, ulock, items, now>>
  /\ UNCHANGED teamVars
  /\ UNCHANGED emailVars

\* An insert that does not take the provider's item id.
NoRemoteItemId(sub) == 0

\* The id the provider gives the item it creates on the subscription: one
\* it has not given yet.
NewRemoteItemId(sub) ==
  Len(items) + Cardinality({q \in Procs : breq[q].remote # 0}) + 1

\* Step 7, subscriptionitem.New: the provider answers an error, which ends
\* the request, or the id of the item it created.
AddonRemoteCreate(p, providerOk) ==
  /\ breq[p].pc = "ad_remote"
  /\ LET r == breq[p] IN
       IF ~providerOk
       THEN BReturn(p, r, "ServerError")
       ELSE BContinue(p, [r EXCEPT !.pc = "ad_insert", !.remote = NewRemoteItemId(r.found)])
  /\ UNCHANGED <<cfg, subs, cust, ulock, items, now>>
  /\ UNCHANGED teamVars
  /\ UNCHANGED emailVars

\* Step 8, CreateSubscriptionItem: the local row is inserted under the
\* provider's item id, in a database call of its own.
CreateSubscriptionItem(p) ==
  /\ breq[p].pc = "ad_insert"
  /\ LET r == breq[p] IN
       /\ items' = Append(items, [sub |-> r.found, typ |-> r.typ,
                                  resource |-> r.resource,
                                  stripeItem |-> r.remote,
                                  removed |-> FALSE])
       /\ BReturn(p, r, "OK")
  /\ UNCHANGED <<cfg, subs, cust, ulock, now>>
  /\ UNCHANGED teamVars
  /\ UNCHANGED emailVars

\* ------------------------------------------------------ DeleteRemoveAddon
\* Steps 2-4: the id is parsed, the provider key is read and the user's
\* active subscription is read.
RemoveAddonBegin(p, u, resource) ==
  /\ BFree(p)
  /\ LET r0 == [BIdle EXCEPT !.op = "removeaddon", !.user = u, !.resource = resource]
         sub == FindLatestActiveSubscriptionByUserID(u)
     IN IF resource \notin Resources THEN BReturn(p, r0, "BadRequest")
        ELSE IF ~cfg.secretKey THEN BReturn(p, r0, "ServerError")
        ELSE IF sub = 0 THEN BReturn(p, r0, "NotFound")
        ELSE BContinue(p, [r0 EXCEPT !.pc = "rm_find", !.found = sub])
  /\ UNCHANGED <<cfg, subs, cust, ulock, items, now>>
  /\ UNCHANGED teamVars
  /\ UNCHANGED emailVars

\* Step 5: the item is looked up as a reserved domain, then as a custom
\* domain.
RemoveAddonFind(p) ==
  /\ breq[p].pc = "rm_find"
  /\ LET r == breq[p]
         a == FindSubscriptionItemByTypeAndResource(r.found, "reserved_domain", r.resource)
         b == FindSubscriptionItemByTypeAndResource(r.found, "custom_domain", r.resource)
         i == IF a # 0 THEN a ELSE b
     IN IF i = 0 THEN BReturn(p, r, "NotFound")
        ELSE BContinue(p, [r EXCEPT !.pc = "rm_delete", !.found = i])
  /\ UNCHANGED <<cfg, subs, cust, ulock, items, now>>
  /\ UNCHANGED teamVars
  /\ UNCHANGED emailVars

\* A handler for which every answer of the provider but success is a
\* failure.
ProviderDeleteFailsStrict(answer) == answer # "ok"

\* The provider's answer to the delete fails the request unless it is the
\* error code resource_missing: the item is already gone there.
ProviderDeleteFails(answer) == answer \notin {"ok", "missing"}

\* Step 6, subscriptionitem.Del: the provider deletes the item ("ok"),
\* reports it missing or answers another error.
RemoveAddonRemoteDelete(p, answer) ==
  /\ breq[p].pc = "rm_delete"
  /\ LET r == [breq[p] EXCEPT !.answer = answer] IN
       IF ProviderDeleteFails(answer)
       THEN BReturn(p, r, "ServerError")
       ELSE BContinue(p, [r EXCEPT !.pc = "rm_local"])
  /\ UNCHANGED <<cfg, subs, cust, ulock, items, now>>
  /\ UNCHANGED teamVars
  /\ UNCHANGED emailVars

\* Step 7: the local row is deleted by its primary key; a row that is gone
\* already is no error.
RemoveAddonLocalDelete(p) ==
  /\ breq[p].pc = "rm_local"
  /\ LET r == breq[p] IN
       /\ items' = [items EXCEPT ![r.found].removed = TRUE]
       /\ BReturn(p, r, "OK")
  /\ UNCHANGED <<cfg, subs, cust, ulock, now>>
  /\ UNCHANGED teamVars
  /\ UNCHANGED emailVars

\* ================================================================= email
ProviderNames == {"ses", "smtp", "notarealprovider"}   \* names in settings
Factories == {"sesProviderFactory", "hostFactory"}     \* registered factories

\* The registry after the package's init(): "ses" is registered.
RegistryAtInit ==
  [n \in ProviderNames |-> IF n = "ses" THEN "sesProviderFactory" ELSE "none"]

NoSender == [called |-> FALSE, provider |-> "none", made |-> FALSE,
             sender |-> "nil", err |-> FALSE]

EmailEmpty ==
  /\ emailProviderRegistry = RegistryAtInit
  /\ eout = NoSender

\* RegisterEmailProvider: the factory is stored under the name, replacing
\* what was there.
RegisterEmailProvider(name, factory) ==
  /\ emailProviderRegistry' = [emailProviderRegistry EXCEPT ![name] = factory]
  /\ eout' = NoSender
  /\ UNCHANGED <<teamVars, billingVars, now>>

\* A lookup that takes the provider key as it is.
ProviderAsGiven(provider) == provider

\* provider := settings["provider"]; if provider == "" { provider = "ses" }
ProviderOrDefault(provider) == IF provider = "" THEN "ses" ELSE provider

\* What a factory returns: sesProviderFactory returns NewSESEmailSender's
\* pointer, nil inside a non-nil interface value when the AWS configuration
\* does not load; a factory of the host application returns its own sender
\* or nil with its error.
FactoryResult(factory, made) ==
  IF made
  THEN [sender |-> IF factory = "sesProviderFactory" THEN "SESEmailSender"
                   ELSE "hostSender",
        err |-> FALSE]
  ELSE [sender |-> IF factory = "sesProviderFactory" THEN "nilSESEmailSender"
                   ELSE "nil",
        err |-> TRUE]

\* GetEmailSenderFromSettings: an unregistered provider is an error;
\* otherwise the result of the registered factory, which makes the sender
\* or fails (made).
GetEmailSenderFromSettings(provider, made) ==
  /\ LET name == ProviderOrDefault(provider)
         factory == IF name \in ProviderNames THEN emailProviderRegistry[name]
                    ELSE "none"
     IN eout' = IF factory = "none"
                THEN [NoSender EXCEPT !.called = TRUE, !.provider = provider,
                                      !.made = made, !.err = TRUE]
                ELSE [called |-> TRUE, provider |-> provider, made |-> made,
                      sender |-> FactoryResult(factory, made).sender,
                      err |-> FactoryResult(factory, made).err]
  /\ UNCHANGED <<emailProviderRegistry, teamVars, billingVars, now>>

\* ------------------------------------------------------ specifications
\* The steps of the handlers of the invitation lifecycle that a request
\* takes whether or not another request runs beside it.
InvitationStep(p) ==
  \/ \E u \in Creators : CreateTeam(p, u)
  \/ \E u \in Users, t \in TeamIds, e \in Emails,
        r \in {RoleOwner, RoleAdmin, RoleMember} : InviteAuth(p, u, t, e, r)
  \/ InviteMemberCheck(p)
  \/ InvitePendingCheck(p)
  \/ InviteCreate(p)
  \/ \E u \in Users, tok \in Tokens : AcceptFind(p, u, tok)
  \/ AcceptCheck(p)
  \/ AcceptMemFind(p)
  \/ AcceptMemInsert(p)
  \/ AcceptUpdate(p)
  \/ \E u \in Users, tok \in Tokens : DeclineFind(p, u, tok)
  \/ DeclineCheck(p)
  \/ UpdateStatusFind(p)
  \/ UpdateStatusWrite(p)
  \/ \E u \in Users, t \in TeamIds, i \in InvIds : CancelAuth(p, u, t, i)
  \/ CancelFind(p)
  \/ DeleteInvitationFind(p)
  \/ DeleteInvitationWrite(p)

\* The steps of the handlers that manage the members of a team.
MemberStep(p) ==
  \/ \E u \in Users, t \in TeamIds, m \in Users,
        r \in {RoleOwner, RoleAdmin, RoleMember} : RoleAuth(p, u, t, m, r)
  \/ RoleFind(p)
  \/ RoleWrite(p)
  \/ \E u \in Users, t \in TeamIds, m \in Users : RemoveAuth(p, u, t, m)
  \/ RemoveFind(p)
  \/ DeleteMembershipFind(p)
  \/ DeleteMembershipWrite(p)

\* The steps a request takes only after another request's write came between
\* its read and its conditional write.
RaceStep(p) ==
  \/ AcceptRefetch(p)
  \/ UpdateStatusRefetch(p)

\* Every handler, requests served one at a time, while time passes.
\* The service starts configured, with empty tables.
Init ==
  /\ InitTeams
  /\ cfg = [webhookSecret |-> TRUE, secretKey |-> TRUE, priceIds |-> TRUE]
  /\ BillingEmpty
  /\ EmailEmpty

NextSeq ==
  \/ Tick
  \/ \E p \in {1} : InvitationStep(p)
  \/ \E p \in {1} : MemberStep(p)

SpecSeq == Init /\ [][NextSeq]_vars

\* The invitation lifecycle, requests served at the same time, within one
\* instant of the clock.
Next ==
  \/ \E p \in Procs : InvitationStep(p)
  \/ \E p \in Procs : RaceStep(p)

Spec == Init /\ [][Next]_vars

\* The requests that end before a handler runs, by signature, event type
\* and whether the payload parses.
Rejections ==
  ({"missing", "bad"} \X {"other"} \X {TRUE})
  \cup ({"good"} \X EventTypes \X {FALSE})
  \cup ({"good"} \X {"other"} \X {TRUE})

\* The payloads of checkout-completed events: user reference, customer and
\* subscription, each present, empty or absent.
CheckoutPayloads ==
  ((Users \cup {"ghost"}) \X Customers \X ExtIds)
  \cup ({"", "malformed"} \X Customers \X ExtIds)
  \cup (Users \X {"nil", ""} \X ExtIds)
  \cup (Users \X Customers \X {"nil", ""})

\* The steps of the checkout-completed handler.
CheckoutStep(p) ==
  \/ \E sig \in {"bad", "good"}, c \in CheckoutPayloads :
        CheckoutBegin(p, sig, c[1], c[2], c[3])
  \/ \E f \in Fetches : CheckoutFetch(p, f)
  \/ CheckoutUserUpdate(p)
  \/ CheckoutFind(p)
  \/ CheckoutWrite(p)

\* The steps of the other webhook handlers.
EventStep(p) ==
  \/ \E e \in Rejections : WebhookReject(p, e[1], e[2], e[3])
  \/ \E sig \in {"bad", "good"} : WebhookUnhandled(p, sig, "other")
  \/ \E sig \in {"bad", "good"}, id \in EventIds, ev \in Snapshots :
        SubscriptionUpdatedFind(p, sig, id, ev)
  \/ SubscriptionUpdatedWrite(p)
  \/ \E sig \in {"bad", "good"}, id \in EventIds, st \in DeletedStatuses :
        SubscriptionDeleted(p, sig, id, st)
  \/ \E sig \in {"bad", "good"}, link \in EventIds \cup {"nil", ""},
        invStatus \in {"paid", "open"} : InvoicePaid(p, sig, link, invStatus)
  \/ \E sig \in {"bad", "good"}, link \in EventIds \cup {"nil", ""} :
        InvoicePaymentFailed(p, sig, link)

\* The steps of the add-on handlers.
AddonStep(p) ==
  \/ \E u \in Users, typ \in ItemTypes \cup {"", "other"},
        resource \in Resources \cup {"", "malformed"} : AddonBegin(p, u, typ, resource)
  \/ AddonCheck(p)
  \/ \E providerOk \in BOOLEAN : AddonRemoteCreate(p, providerOk)
  \/ CreateSubscriptionItem(p)
  \/ \E u \in Users, resource \in Resources \cup {"malformed"} :
        RemoveAddonBegin(p, u, resource)
  \/ RemoveAddonFind(p)
  \/ \E answer \in {"ok", "missing", "error"} : RemoveAddonRemoteDelete(p, answer)
  \/ RemoveAddonLocalDelete(p)

\* A service deployed with any configuration of the webhook secret and the
\* provider key, with empty tables.
InitBilling ==
  /\ InitTeams
  /\ cfg \in {c \in Configs : c.priceIds}
  /\ BillingEmpty
  /\ EmailEmpty

\* Webhook deliveries served at the same time, within one instant of the
\* clock.
NextBilling ==
  \/ \E p \in Procs : CheckoutStep(p)
  \/ \E p \in Procs : EventStep(p)

SpecBilling == InitBilling /\ [][NextBilling]_vars

\* Webhook deliveries served one at a time, while time passes.
NextBillingSeq ==
  \/ BillingTick
  \/ \E p \in {1} : CheckoutStep(p)
  \/ \E p \in {1} : EventStep(p)

SpecBillingSeq == InitBilling /\ [][NextBillingSeq]_vars

\* A service deployed with any configuration of the add-on prices and the
\* provider key, with empty tables.
InitAddon ==
  /\ InitTeams
  /\ cfg \in {c \in Configs : c.webhookSecret}
  /\ BillingEmpty
  /\ EmailEmpty

\* Add-on requests served at the same time, checkouts one at a time, within
\* one instant of the clock.
NextAddon ==
  \/ \E p \in {1} : CheckoutStep(p)
  \/ \E p \in Procs : AddonStep(p)

SpecAddon == InitAddon /\ [][NextAddon]_vars

\* The email provider registry, as the host application registers
\* providers and asks for senders.
NextEmail ==
  \/ \E name \in ProviderNames, factory \in Factories :
        RegisterEmailProvider(name, factory)
  \/ \E provider \in ProviderNames \cup {""}, made \in BOOLEAN :
        GetEmailSenderFromSettings(provider, made)

SpecEmail == Init /\ [][NextEmail]_vars

\* ================================================================ claims
\* The invitation a response is about.
Answered(op) == out.pc # "none" /\ out.op = op

\* C1: of two concurrent AcceptInvitation calls made by the invited user for
\* a pending, unexpired invitation, one performs pending -> accepted and
\* the other observes the accepted status, with one Membership row of
\* (user, team) afterwards.  Stated for each returning call: a call that
\* passed the status, expiry and email checks and returns while the
\* invitation is stored as accepted either performed the transition itself
\* or reports the accepted status, and the membership row is there.
C1_TwoAccepts ==
  (/\ Answered("accept")
   /\ out.res \notin {"NotFound", "Expired", "Forbidden"}
   /\ Live(out.inv)
   /\ EmailOf(out.user) = invs[out.inv].email
   /\ invs[out.inv].status = StatusAccepted)
  => /\ (out.rows = 1 \/ out.st = StatusAccepted)
     /\ Membership(out.user, invs[out.inv].team).state = "live"

\* C2: when AcceptInvitation's conditional write affects zero rows, the call
\* succeeds only if the status read again is accepted and is a Conflict for
\* any other status.
C2_AcceptReclassifies ==
  (Answered("accept") /\ out.pc = "acc_refetch")
  => IF out.st = StatusAccepted THEN out.res = "OK" ELSE out.res = "Conflict"

\* C3: at most one pending invitation per (team, email) pair in every
\* reachable state.
C3_OnePendingPerPair ==
  \A i, j \in 1..Len(invs) :
    (/\ i # j
     /\ ~invs[i].deleted /\ ~invs[j].deleted
     /\ invs[i].status = StatusPending /\ invs[j].status = StatusPending
     /\ invs[i].team = invs[j].team)
    => invs[i].email # invs[j].email

\* C4: every write of an invitation's status starts from pending, so a
\* stored status of accepted or declined never changes again.
C4_StatusWritesFromPending ==
  [][\A i \in 1..Len(invs) :
       invs'[i].status # invs[i].status => invs[i].status = StatusPending]_vars

\* C4 witness: a conditional write has matched nothing because the
\* invitation was declined in between.
C4_Witness ==
  \E p \in Procs :
    /\ req[p].pc = "acc_refetch"
    /\ Live(req[p].inv)
    /\ invs[req[p].inv].status = StatusDeclined

\* C5: CancelInvitation removes an invitation only while it is pending.
C5_RemovedOnlyWhilePending ==
  [][\A i \in 1..Len(invs) :
       (~invs[i].deleted /\ invs'[i].deleted) => invs[i].status = StatusPending]_vars

\* C6: when DeclineInvitation's conditional write affects zero rows, the
\* call succeeds if the status read again is declined and is a Conflict
\* otherwise, so both of two concurrent Declines succeed.
C6_DeclineReclassifies ==
  (Answered("decline") /\ out.pc = "upd_refetch")
  => IF out.st = StatusDeclined THEN out.res = "OK" ELSE out.res = "Conflict"

\* C7: AcceptInvitation on a pending invitation whose expiry is in the past
\* returns Expired, leaves the stored status pending and creates no
\* Membership row: the read of the invitation changes nothing, and the
\* check that follows it returns Expired and changes nothing.
C7_ExpiredAccept ==
  [][\A p \in Procs :
       /\ (req[p].pc = "idle" /\ req'[p].pc = "acc_check")
            => UNCHANGED <<invs, mem>>
       /\ (/\ req[p].pc = "acc_check"
           /\ invs[req[p].inv].status = StatusPending
           /\ now > invs[req[p].inv].expiresAt
           /\ req'[p] # req[p])
            => /\ out'.op = "accept" /\ out'.res = "Expired"
               /\ UNCHANGED <<invs, mem>>]_vars

\* C7 witness: an Accept has returned Expired for an invitation that is
\* still stored as pending.
C7_Witness ==
  /\ Answered("accept")
  /\ out.res = "Expired"
  /\ invs[out.inv].status = StatusPending
  /\ Membership(out.user, invs[out.inv].team).state = "none"

\* No visible row carries the token.
NoStoredInvitation(tok) ==
  \A i \in 1..Len(invs) : invs[i].deleted \/ invs[i].token # tok

\* C8: AcceptInvitation and DeclineInvitation called with a token that
\* matches no stored invitation return NotFound at once and leave
\* invitations and memberships unchanged.
C8_UnknownToken ==
  [][\A p \in Procs, op \in {"accept", "decline"} :
       /\ (/\ req[p].pc = "idle" /\ req'[p].op = op)
            => ~NoStoredInvitation(req'[p].inv)
       /\ (/\ req[p].pc = "idle" /\ req'[p] = req[p]
           /\ out'.pc = "idle" /\ out'.op = op
           /\ NoStoredInvitation(out'.inv))
            => (out'.res = "NotFound" /\ UNCHANGED <<invs, mem>>)]_vars

\* C8 witness: a Decline has returned NotFound for the token of a cancelled
\* invitation.
C8_Witness ==
  /\ Answered("decline")
  /\ out.res = "NotFound"
  /\ out.inv \in 1..Len(invs)
  /\ NoStoredInvitation(out.inv)

\* C9: when AcceptInvitation returns success, the Membership row of
\* (user, team) exists with the offered role and the invitation is stored
\* as accepted.
C9_AcceptSuccess ==
  (Answered("accept") /\ out.res = "OK")
  => /\ Live(out.inv)
     /\ invs[out.inv].status = StatusAccepted
     /\ Membership(out.user, invs[out.inv].team) =
          [state |-> "live", role |-> invs[out.inv].role]

\* C10: every team has exactly one Membership with role owner, that of the
\* user who created it, in every reachable state.
C10_OneOwner ==
  \A t \in TeamIds :
    {u \in Users : Membership(u, t).state = "live" /\ Membership(u, t).role = RoleOwner}
      = IF t <= Len(teams) THEN {teams[t].owner} ELSE {}

\* C10 witness: an admin's attempt to change or remove the owner has been
\* turned down.
C10_Witness ==
  /\ out.pc \in {"role_find", "rem_find"}
  /\ out.res = "BadRequest"
  /\ \E u \in Users, t \in TeamIds : Membership(u, t) = [state |-> "live", role |-> RoleAdmin]

\* A billing response of the handler op for an event of type typ.
BAnswered(op, typ) == bout.pc # "none" /\ bout.op = op /\ bout.typ = typ

\* C11: whatever deliveries of checkout-completed events are processed, one
\* after another or at the same time, no external subscription id has more
\* than one Subscription row, and when a delivery has been processed
\* successfully there is exactly one row of its id, whose plan, status and
\* period are those the delivery wrote.
C11_OneSubscriptionPerExt ==
  [][/\ \A ext \in ExtIds :
          Cardinality({i \in 1..Len(subs') : subs'[i].ext = ext}) <= 1
     /\ \A p \in Procs :
          (/\ breq[p].typ = "checkout.session.completed"
           /\ breq[p].pc # "idle" /\ breq'[p].pc = "idle"
           /\ bout'.res = "OK")
          => LET r == breq[p]
                 S == {i \in 1..Len(subs') : subs'[i].ext = r.ext}
             IN /\ Cardinality(S) = 1
                /\ \A i \in S : /\ subs'[i].plan = r.plan
                                /\ subs'[i].status = r.status
                                /\ subs'[i].period = r.period]_vars

\* C11 witness: a delivery has been processed that found the row written
\* by an earlier one.
C11_Witness ==
  /\ BAnswered("webhook", "checkout.session.completed")
  /\ bout.res = "OK"
  /\ bout.found # 0
  /\ Cardinality(SubsWith(bout.ext)) = 1

\* The invoice events.
InvoiceTypes == {"invoice.paid", "invoice.payment_failed"}

\* C12: when a subscription-deleted event has set a subscription's status
\* to canceled, an invoice-paid or invoice-payment-failed event for the same
\* external id that is processed next leaves the status canceled.
C12_CanceledIsFinal ==
  [][(/\ BAnswered("webhook", "customer.subscription.deleted")
      /\ bout.res = "OK"
      /\ bout'.pc # "none"
      /\ bout'.typ \in InvoiceTypes
      /\ bout'.link = bout.ext)
     => \A i \in 1..Len(subs) :
          (subs[i].ext = bout.ext /\ subs[i].status = SubCanceled)
          => subs'[i].status = SubCanceled]_vars

\* The row new is the row old with the status st, whenever it was written.
SameButStatus(old, new, st) ==
  /\ new.status = st
  /\ new.user = old.user /\ new.plan = old.plan /\ new.ext = old.ext
  /\ new.period = old.period /\ new.cancel = old.cancel

FollowUpTypes ==
  {"customer.subscription.updated", "customer.subscription.deleted",
   "invoice.paid", "invoice.payment_failed"}

\* C14: a subscription-updated, subscription-deleted, invoice-paid or
\* invoice-payment-failed event that names an external subscription id of
\* which storage holds no row is answered with success, and the
\* subscriptions, the subscription items and the users' customer ids are
\* left as they were.
C14_UnknownIdIgnored ==
  [][(/\ bout'.pc # "none"
      /\ bout'.op = "webhook"
      /\ bout'.typ \in FollowUpTypes
      /\ bout'.ext \in EventIds
      /\ ~ \E i \in 1..Len(subs) : subs[i].ext = bout'.ext)
     => /\ bout'.res = "OK"
        /\ subs' = subs
        /\ items' = items
        /\ cust' = cust]_vars

\* C14 witness: a verified event of each kind has been answered for an id
\* without a row while storage holds another subscription.
C14_WitnessUpdated ==
  /\ BAnswered("webhook", "customer.subscription.updated")
  /\ bout.ext \in UnknownIds
  /\ SubsWith(bout.ext) = {}
  /\ Len(subs) > 0
  /\ bout.res = "OK"

\* C15: a webhook request without a signature, or with a signature that
\* does not verify against the configured secret, is answered Unverified
\* and leaves the subscriptions, the items, the customer ids and the row
\* locks as they were; no request with such a signature is ever inside an
\* event handler.
C15_UnverifiedRejected ==
  [][/\ (/\ bout'.pc # "none"
         /\ bout'.op = "webhook"
         /\ \/ bout'.sig = "missing"
            \/ bout'.sig = "bad" /\ cfg.webhookSecret)
        => /\ bout'.res = "Unverified"
           /\ subs' = subs /\ items' = items /\ cust' = cust /\ ulock' = ulock
     /\ \A p \in Procs :
          (breq'[p].op = "webhook" /\ breq'[p].pc # "idle")
          => breq'[p].sig = "good"]_vars

\* C15 witness: a request with a signature that does not verify has been
\* rejected while storage holds a subscription.
C15_Witness ==
  /\ bout.pc # "none"
  /\ bout.op = "webhook"
  /\ bout.sig = "bad"
  /\ cfg.webhookSecret
  /\ bout.res = "Unverified"
  /\ Len(subs) > 0

C17_UnlinkedInvoiceIgnored ==
  [][/\ (/\ bout'.pc # "none"
         /\ bout'.op = "webhook"
         /\ bout'.typ \in InvoiceTypes
         /\ bout'.link \in {"nil", ""})
        => bout'.res = "OK" /\ subs' = subs
     /\ (/\ bout'.pc # "none"
         /\ bout'.op = "webhook"
         /\ bout'.typ = "invoice.paid"
         /\ bout'.invoice = "open")
        => subs' = subs]_vars

\* C18: no two subscription item rows that exist have the same
\* subscription, item type and resource.
C18_ItemsDistinct ==
  \A i, j \in 1..Len(items) :
    (/\ i # j
     /\ ~items[i].removed /\ ~items[j].removed
     /\ items[i].sub = items[j].sub
     /\ items[i].typ = items[j].typ)
    => items[i].resource # items[j].resource

\* The outcomes that are client errors (status 400).
ClientErrors == {"Unverified", "BadRequest"}

\* C19: a webhook request is answered with a client error only when its
\* signature is missing or does not verify; a verified event that cannot be
\* processed is never answered with a client error.
C19_ClientErrorOnlyForSignature ==
  (/\ bout.pc # "none"
   /\ bout.op = "webhook"
   /\ bout.res \in ClientErrors)
  => bout.sig # "good"

\* The inviter u holds a visible owner or admin membership in team t.
HoldsOwnerOrAdmin(u, t) ==
  /\ Membership(u, t).state = "live"
  /\ Membership(u, t).role \in {RoleOwner, RoleAdmin}

\* The email e belongs to a user who is a member of team t, or a pending
\* invitation for e to t is stored.
AlreadyMemberOrInvited(t, e) ==
  \/ \E u \in Users : EmailOf(u) = e /\ Membership(u, t).state = "live"
  \/ \E i \in 1..Len(invs) :
       /\ ~invs[i].deleted /\ invs[i].status = StatusPending
       /\ invs[i].team = t /\ invs[i].email = e

\* C20: with requests served one at a time, an invite request for a role
\* that may be offered is answered Forbidden when the inviter holds no owner
\* or admin membership in the team; the request of a permitted inviter is
\* answered Conflict when the invited email belongs to a member of the team
\* or a pending invitation for the team and email exists; in each case no
\* invitation row is created.
C20_InviteRefusals ==
  [][/\ \A u \in Users, t \in TeamIds, e \in Emails, r \in {RoleAdmin, RoleMember} :
          (InviteAuth(1, u, t, e, r) /\ ~HoldsOwnerOrAdmin(u, t))
          => /\ out'.op = "invite"
             /\ out'.res = "Forbidden"
             /\ invs' = invs
     /\ \A p \in Procs :
          (/\ req[p].op = "invite" /\ req[p].pc # "idle"
           /\ AlreadyMemberOrInvited(req[p].team, req[p].email))
          => /\ invs' = invs
             /\ req'[p].pc # "inv_create"
             /\ req'[p].pc = "idle" => out'.res = "Conflict"]_vars

\* C20 witness: an invite has been refused because a pending invitation for
\* the team and email is stored.
C20_Witness ==
  /\ Answered("invite")
  /\ out.pc = "inv_pending"
  /\ out.res = "Conflict"
  /\ \E i \in 1..Len(invs) : ~invs[i].deleted /\ invs[i].status = StatusPending

C22_AcceptAllOrNothing ==
  [][/\ \A p \in Procs :
          (req[p].op = "accept" /\ req[p].pc # "idle" /\ req'[p].pc = "idle")
          => LET r == req[p]
                 k == <<r.user, r.team>>
                 wrote == /\ invs[r.inv].status = StatusPending
                          /\ invs'[r.inv].status = StatusAccepted
             IN IF r.created
                THEN \/ wrote /\ mem'[k] = [state |-> "live", role |-> r.role]
                     \/ ~wrote /\ mem'[k] = NoMembership
                ELSE mem' = mem /\ (wrote \/ invs' = invs)
     /\ \A u \in Users, t \in TeamIds :
          mem'[<<u, t>>].state = "uncommitted"
          => \E p \in Procs : /\ req'[p].op = "accept" /\ req'[p].created
                              /\ req'[p].user = u /\ req'[p].team = t]_vars

\* C22 witness: an Accept call that had inserted its membership row lost
\* the invitation to a Decline, and its row is gone.
C22_Witness ==
  /\ Answered("accept")
  /\ out.pc = "acc_refetch"
  /\ out.inv \in 1..Len(invs)
  /\ invs[out.inv].status = StatusDeclined
  /\ EmailOf(out.user) = invs[out.inv].email
  /\ Membership(out.user, invs[out.inv].team) = NoMembership

\* C23: every step of a checkout-completed delivery other than its
\* successful return, a failed return included, leaves the users' customer
\* ids and the subscriptions as they were; the successful return leaves the
\* delivery's customer id on its user and the delivery's plan and status on
\* the one row of its external id.
C23_CheckoutAllOrNothing ==
  [][/\ (/\ bout'.pc # "none"
         /\ bout'.op = "webhook"
         /\ bout'.typ = "checkout.session.completed"
         /\ bout'.res # "OK")
        => cust' = cust /\ subs' = subs
     /\ \A p \in Procs :
          (/\ breq'[p].typ = "checkout.session.completed"
           /\ breq'[p] # breq[p])
          => cust' = cust /\ subs' = subs
     /\ \A p \in Procs :
          (/\ breq[p].typ = "checkout.session.completed"
           /\ breq[p].pc # "idle" /\ breq'[p].pc = "idle"
           /\ bout'.res = "OK")
          => LET r == breq[p] IN
               /\ cust'[r.user] = r.customer
               /\ \E i \in 1..Len(subs') :
                    /\ subs'[i].ext = r.ext /\ subs'[i].plan = r.plan
                    /\ subs'[i].status = r.status /\ subs'[i].user = r.user]_vars

\* C23 witness: a delivery failed at the upsert, after its user update, and
\* the customer id of its user is not stored.
C23_Witness ==
  /\ BAnswered("webhook", "checkout.session.completed")
  /\ bout.pc = "co_write"
  /\ bout.res = "ServerError"
  /\ Len(subs) = 1
  /\ \E u \in Users : cust[u] = "none" /\ subs[1].user # u

\* C24: a PostAddAddon request writes nothing locally before the provider
\* has answered its create call: a subscription item row is inserted only
\* by a request that holds the id of the item the provider created for it,
\* under that id, and a request whose create call fails returns a server
\* error with no row inserted.
C24_RemoteBeforeLocal ==
  [][/\ \A p \in Procs :
          (breq'[p].op = "addaddon" /\ breq'[p].pc = "ad_insert")
          => breq'[p].remote # 0
     /\ \A p \in Procs :
          (/\ breq[p].op = "addaddon" \/ breq'[p].op = "addaddon"
           /\ breq'[p] # breq[p]
           /\ breq[p].pc # "ad_insert")
          => items' = items /\ subs' = subs /\ cust' = cust
     /\ (/\ bout'.pc = "ad_remote" /\ bout'.op = "addaddon")
        => /\ bout'.res = "ServerError"
           /\ bout'.remote = 0
           /\ items' = items
     /\ Len(items') > Len(items)
        => \E p \in Procs :
             /\ breq[p].op = "addaddon" /\ breq[p].pc = "ad_insert"
             /\ breq[p].remote # 0
             /\ bout'.res = "OK"
             /\ items' = Append(items, items'[Len(items')])
             /\ items'[Len(items')].stripeItem = breq[p].remote]_vars

\* C24 witness: the provider has refused the create call of a request
\* while an item of an earlier request is stored.
C24_Witness ==
  /\ bout.pc = "ad_remote"
  /\ bout.op = "addaddon"
  /\ bout.res = "ServerError"
  /\ Len(items) = 1

\* C25: a DeleteRemoveAddon request to which the provider answers that the
\* item is already gone deletes the local row and returns success, as does
\* one whose remote delete succeeds; a request to which the provider
\* answers any other error returns a server error and leaves the
\* subscription items as they were.
C25_RemoteGoneStillDeletes ==
  [][/\ \A p \in Procs :
          (breq'[p].op = "removeaddon" /\ breq'[p].pc = "rm_local")
          => breq'[p].answer \in {"ok", "missing"}
     /\ \A p \in Procs :
          (/\ breq[p].op = "removeaddon" /\ breq[p].pc = "rm_local"
           /\ breq'[p] # breq[p])
          => /\ bout'.res = "OK"
             /\ bout'.answer = breq[p].answer
             /\ items'[breq[p].found].removed
             /\ \A i \in 1..Len(items) : i # breq[p].found => items'[i] = items[i]
     /\ (/\ bout'.pc # "none" /\ bout'.op = "removeaddon"
         /\ bout'.answer = "missing")
        => bout'.res = "OK" /\ items'[bout'.found].removed
     /\ (/\ bout'.pc # "none" /\ bout'.op = "removeaddon"
         /\ bout'.answer = "error")
        => bout'.res = "ServerError" /\ items' = items]_vars

\* C25 witness: the provider has answered that the item is already gone,
\* and the request has deleted the local row and returned success.
C25_Witness ==
  /\ bout.pc = "rm_local"
  /\ bout.op = "removeaddon"
  /\ bout.answer = "missing"
  /\ bout.res = "OK"
  /\ items[bout.found].removed

\* C26: a verified checkout-completed event whose user reference, customer
\* or subscription is missing, absent or empty, is answered with the
\* data-shape error at once: the request returns without asking the
\* provider and leaves the subscriptions and the customer ids as they were.
C26_MissingIdsRejected ==
  [][\A p \in Procs, c \in CheckoutPayloads :
       (/\ CheckoutBegin(p, "good", c[1], c[2], c[3])
        /\ c[1] = "" \/ c[2] \in {"nil", ""} \/ c[3] \in {"nil", ""})
       => /\ bout'.res = "BadRequest"
          /\ breq'[p].pc = "idle"
          /\ subs' = subs /\ cust' = cust]_vars

\* C27: with deliveries served one at a time, a subscription-updated event
\* for an external id that has a row takes the event's status, period and
\* cancel flag, and as plan the plan sold at the event's price when there is
\* one and the plan of the stored row otherwise; its one write then puts
\* these four values on the row, changes no other field of it but the
\* update time, changes no other row, and answers success.
C27_UpdatedWritesEvent ==
  [][/\ \A id \in EventIds, ev \in Snapshots :
          (/\ SubscriptionUpdatedFind(1, "good", id, ev)
           /\ \E i \in 1..Len(subs) : subs[i].ext = id)
          => LET i == CHOOSE j \in 1..Len(subs) : subs[j].ext = id
             IN /\ breq'[1].pc = "up_write"
                /\ breq'[1].found = i
                /\ breq'[1].status = ev.status
                /\ breq'[1].period = ev.period
                /\ breq'[1].cancel = ev.cancel
                /\ breq'[1].plan = IF ev.price = "price_basic" THEN "basic"
                                   ELSE IF ev.price = "price_pro" THEN "pro"
                                   ELSE subs[i].plan
                /\ subs' = subs
     /\ \A p \in Procs :
          (breq[p].pc = "up_write" /\ breq'[p] # breq[p])
          => LET r == breq[p] IN
               /\ bout'.res = "OK"
               /\ Len(subs') = Len(subs)
               /\ \A i \in 1..Len(subs) :
                    IF i = r.found
                    THEN /\ subs'[i].status = r.status
                         /\ subs'[i].period = r.period
                         /\ subs'[i].cancel = r.cancel
                         /\ subs'[i].plan = r.plan
                         /\ subs'[i].user = subs[i].user
                         /\ subs'[i].ext = subs[i].ext
                    ELSE subs'[i] = subs[i]]_vars

\* C27 witness: an event at a price that no plan is sold at has been
\* processed, and the row has the event's status and period and the plan it
\* had before.
C27_Witness ==
  /\ BAnswered("webhook", "customer.subscription.updated")
  /\ bout.pc = "up_write"
  /\ bout.res = "OK"
  /\ subs[bout.found].status = SubCanceled
  /\ subs[bout.found].period = 2
  /\ subs[bout.found].plan = "basic"
  /\ ~subs[bout.found].cancel

\* C28: AcceptInvitation on an invitation that was created and is no longer
\* pending (accepted, declined, or cancelled through CancelInvitation)
\* returns Conflict reporting that terminal status.  Stated for a call that
\* returns at its read of the row: when the token is the one of a stored
\* invitation that is accepted, declined or cancelled, the answer is
\* Conflict.
C28_NotPendingIsConflict ==
  (/\ Answered("accept")
   /\ out.pc = "idle"
   /\ FindInvitationByTokenUnscoped(out.inv) # 0
   /\ LET i == FindInvitationByTokenUnscoped(out.inv)
      IN invs[i].deleted \/ invs[i].status # StatusPending)
  => out.res = "Conflict"

\* C29: for a pending, unexpired invitation, AcceptInvitation or
\* DeclineInvitation by an authenticated user whose email differs from the
\* invitation's email returns Forbidden, leaves the invitation pending and
\* creates no Membership row.  Stated for the step that ends the call after
\* the row was read as pending: the answer is Forbidden and neither the
\* invitations nor the memberships change.
C29_WrongEmailForbidden ==
  [][\A p \in Procs :
       (/\ req[p].pc \in {"acc_check", "dec_check"}
        /\ req'[p].pc # req[p].pc
        /\ Live(req[p].inv)
        /\ invs[req[p].inv].status = StatusPending
        /\ ~HasExpired(req[p].inv)
        /\ EmailOf(req[p].user) # invs[req[p].inv].email)
       => /\ out'.res = "Forbidden"
          /\ req'[p].pc = "idle"
          /\ invs' = invs
          /\ mem' = mem]_vars

C29_Witness ==
  /\ Answered("accept")
  /\ out.pc = "acc_check"
  /\ out.res = "Forbidden"
  /\ Live(out.inv)
  /\ invs[out.inv].status = StatusPending
  /\ ~HasExpired(out.inv)
  /\ EmailOf(out.user) # invs[out.inv].email

\* C30: in every reachable state the stored status of every invitation is
\* one of pending, accepted or declined; no operation writes expired, the
\* expiry being found by comparing the clock with the expiry timestamp when
\* the row is read.
C30_StoredStatuses ==
  \A i \in 1..Len(invs) :
    invs[i].status \in {StatusPending, StatusAccepted, StatusDeclined}

C30_Witness ==
  /\ Answered("accept")
  /\ out.res = "Expired"
  /\ Live(out.inv)
  /\ HasExpired(out.inv)
  /\ invs[out.inv].status = StatusPending

====
